---- MODULE Spec2Model ----
(***************************************************************************)
(* A model of jupyter/notebook/user_functions.py: the DataFrame helpers    *)
(* col_rename_with_mapping, convert_to_numeric, remove_duplicates,         *)
(* annualize_salary and export_to_csv.                                     *)
(*                                                                         *)
(* A DataFrame is a record [status, columns, rows]: columns is the         *)
(* sequence of column names, rows a sequence of tuples aligned with it.    *)
(* The engine fixes no row order, so rows are compared as multisets.       *)
(* status is "ok" for a DataFrame and the exception's name for a call      *)
(* that raised.                                                            *)
(*                                                                         *)
(* Each function has its own specification (SpecDedup, SpecRename, ...)    *)
(* over the same variables; the variables of the other functions stay at   *)
(* their idle values.                                                      *)
(***************************************************************************)
EXTENDS Integers, Sequences, FiniteSets, TLC

VARIABLES
    \* remove_duplicates
    df, dedup_grain, order_grain, is_desc, df_dedup, df_again, dedup_pc,
    \* col_rename_with_mapping
    rename_df, col_mapping_file, rename_out, rename_again, files_opened, rename_pc,
    \* annualize_salary
    salary_type, salary_df, salary_out, salary_pc,
    \* convert_to_numeric
    numeric_df, numeric_out, numeric_pc,
    \* export_to_csv: the file system, and each call's arguments and locals
    dirs, out_files, prior, export_df, file_name, files, stack, stale, pc, raised,
    overlap

dedupVars == <<df, dedup_grain, order_grain, is_desc, df_dedup, df_again, dedup_pc>>

renameVars == <<rename_df, col_mapping_file, rename_out, rename_again, files_opened, rename_pc>>

salaryVars == <<salary_type, salary_df, salary_out, salary_pc>>

numericVars == <<numeric_df, numeric_out, numeric_pc>>

exportVars ==
    <<dirs, out_files, prior, export_df, file_name, files, stack, stale, pc, raised, overlap>>

vars == <<dedupVars, renameVars, salaryVars, numericVars, exportVars>>

otherThanDedup == <<renameVars, salaryVars, numericVars, exportVars>>

otherThanRename == <<dedupVars, salaryVars, numericVars, exportVars>>

otherThanSalary == <<dedupVars, renameVars, numericVars, exportVars>>

otherThanNumeric == <<dedupVars, renameVars, salaryVars, exportVars>>

otherThanExport == <<dedupVars, renameVars, salaryVars, numericVars>>

----------------------------------------------------------------------------
(* Values and DataFrames *)

\* SQL NULL: a cell without a value.  Data values are integers >= 0.
NULL == -1

Range(s) == {s[i] : i \in DOMAIN s}

\* The subsequence of s at the positions in keep, order preserved.
RECURSIVE SelectAt(_, _)
SelectAt(s, keep) ==
    IF s = <<>> THEN <<>>
    ELSE LET n == Len(s)
             front == SelectAt(SubSeq(s, 1, n - 1), keep)
         IN  IF n \in keep THEN Append(front, s[n]) ELSE front

DataFrame(columns, rows) == [status |-> "ok", columns |-> columns, rows |-> rows]

Raised(exception) == [status |-> exception, columns |-> <<>>, rows |-> <<>>]

NoResult == [status |-> "none", columns |-> <<>>, rows |-> <<>>]

\* Position of column c in columns, 0 when there is none.
ColIndex(columns, c) ==
    IF \E i \in DOMAIN columns : columns[i] = c
    THEN CHOOSE i \in DOMAIN columns :
             columns[i] = c /\ \A j \in 1..(i - 1) : columns[j] # c
    ELSE 0

HasColumn(columns, c) == ColIndex(columns, c) # 0

\* col(c) evaluated on row r of d.
Cell(d, r, c) == d.rows[r][ColIndex(d.columns, c)]

\* d.withColumn(name, values): replaces the column of that name where it
\* stands, or appends a new last column; values[r] is the cell of row r.
withColumn(d, name, values) ==
    IF HasColumn(d.columns, name)
    THEN DataFrame(d.columns,
                   [r \in DOMAIN d.rows |->
                       [d.rows[r] EXCEPT ![ColIndex(d.columns, name)] = values[r]]])
    ELSE DataFrame(Append(d.columns, name),
                   [r \in DOMAIN d.rows |-> Append(d.rows[r], values[r])])

\* d.filter(pred): the rows r for which pred[r] holds.
filter(d, pred) ==
    DataFrame(d.columns, SelectAt(d.rows, {r \in DOMAIN d.rows : pred[r]}))

\* d.drop(name): d without the column of that name; d itself when it has none.
drop(d, name) ==
    LET keep == {i \in DOMAIN d.columns : d.columns[i] # name}
    IN  DataFrame(SelectAt(d.columns, keep),
                  [r \in DOMAIN d.rows |-> SelectAt(d.rows[r], keep)])

----------------------------------------------------------------------------
(* remove_duplicates *)

\* Rows of the input DataFrame of remove_duplicates.
MaxRows == 3

\* order_grain as column orderings: col(c).desc() or col(c), all alike.
OrderSpecIgnoringDesc(grain, desc) ==
    [i \in DOMAIN grain |-> [column |-> grain[i], descending |-> FALSE]]

OrderSpec(grain, desc) ==
    [i \in DOMAIN grain |-> [column |-> grain[i], descending |-> desc]]

\* Whether value a sorts strictly before value b: ascending puts NULL first,
\* descending puts NULL last.
SortsBefore(a, b, descending) ==
    IF descending
    THEN (a # NULL /\ b = NULL) \/ (a # NULL /\ b # NULL /\ a > b)
    ELSE (a = NULL /\ b # NULL) \/ (a # NULL /\ b # NULL /\ a < b)

\* Row i sorts strictly before row j under orderBy(spec): the first order
\* column on which they differ decides.
RowBefore(d, i, j, spec) ==
    \E k \in DOMAIN spec :
        /\ SortsBefore(Cell(d, i, spec[k].column), Cell(d, j, spec[k].column),
                       spec[k].descending)
        /\ \A m \in 1..(k - 1) :
               Cell(d, i, spec[m].column) = Cell(d, j, spec[m].column)

\* Window.partitionBy(grain): rows with equal grain cells (NULL equal to NULL).
SamePartition(d, i, j, grain) ==
    \A k \in DOMAIN grain : Cell(d, i, grain[k]) = Cell(d, j, grain[k])

Partition(d, i, grain) == {j \in DOMAIN d.rows : SamePartition(d, i, j, grain)}

\* The numberings of rows 1..m, given each row's partition part[i] and the
\* rows before[i] that sort strictly before row i: a row's number is at most
\* the size of its partition, differs from the numbers of the partition's
\* other rows, and follows the numbers of the rows that sort before it.
RECURSIVE Numberings(_, _, _)
Numberings(m, part, before) ==
    IF m = 0
    THEN {<<>>}
    ELSE LET earlier == part[m] \cap 1..(m - 1)
             fits(rn, v) ==
                 \A j \in earlier :
                     /\ rn[j] # v
                     /\ j \in before[m] => rn[j] < v
                     /\ m \in before[j] => v < rn[j]
         IN  {Append(p[1], p[2]) :
                 p \in {q \in Numberings(m - 1, part, before) \X (1..Cardinality(part[m])) :
                           fits(q[1], q[2])}}

\* row_number().over(win_spec): every numbering the engine may produce.  Each
\* partition is numbered 1..size in the window's order; rows with equal order
\* keys are numbered in an order the engine chooses.
RowNumbers(d, grain, spec) ==
    LET part   == [i \in DOMAIN d.rows |-> Partition(d, i, grain)]
        before == [i \in DOMAIN d.rows |->
                      {j \in part[i] : RowBefore(d, j, i, spec)}]
    IN  Numberings(Len(d.rows), part, before)

\* filter('rank = 1') widened to the first two rows of a partition.
KeepsRankUpToTwo(rank) == rank <= 2

\* filter('rank = 1')
KeepsRank(rank) == rank = 1

\* Whether the analyzer resolves every column the window names.
Resolves(d, grain, order) ==
    /\ \A k \in DOMAIN grain : HasColumn(d.columns, grain[k])
    /\ \A k \in DOMAIN order : HasColumn(d.columns, order[k])

\* remove_duplicates(d, grain, order, desc) under the row numbering rn.
remove_duplicates(d, grain, order, desc, rn) ==
    LET ranked == withColumn(d, "rank", rn)
        first  == filter(ranked, [r \in DOMAIN ranked.rows |->
                                     KeepsRank(Cell(ranked, r, "rank"))])
    IN  drop(first, "rank")

\* All results remove_duplicates may return, or the exception it raises.
RemoveDuplicatesResults(d, grain, order, desc) ==
    IF ~Resolves(d, grain, order)
    THEN {Raised("AnalysisException")}
    ELSE {remove_duplicates(d, grain, order, desc, rn) :
              rn \in RowNumbers(d, grain, OrderSpec(order, desc))}

\* The input DataFrames: columns k and v, or k and rank (the name of the
\* helper column); up to MaxRows rows, a cell being NULL or a small integer.
DedupCells == {NULL, 1, 2}

DedupKeys == {NULL, 1}

DedupColumns == {<<"k", "v">>, <<"k", "rank">>}

DedupRows == UNION {[1..n -> {<<a, b>> : a \in DedupKeys, b \in DedupCells}] : n \in 0..MaxRows}

\* The grains: columns of the DataFrame; order_grain is not empty
\* (row_number needs an ordered window).
DedupGrains(columns) == {<<>>, <<columns[1]>>, <<columns[2]>>}

OrderGrains(columns) == {<<columns[2]>>, <<columns[1], columns[2]>>, <<columns[2], columns[1]>>}

\* df_dedup = remove_duplicates(df, dedup_grain, order_grain, is_desc)
RemoveDuplicates ==
    /\ dedup_pc = "start"
    /\ df_dedup' \in RemoveDuplicatesResults(df, dedup_grain, order_grain, is_desc)
    /\ dedup_pc' = "deduped"
    /\ UNCHANGED <<df, dedup_grain, order_grain, is_desc, df_again>>
    /\ UNCHANGED otherThanDedup

\* The caller runs remove_duplicates again, on its own output and with the
\* same arguments.
RemoveDuplicatesAgain ==
    /\ dedup_pc = "deduped"
    /\ df_dedup.status = "ok"
    /\ df_again' \in RemoveDuplicatesResults(df_dedup, dedup_grain, order_grain, is_desc)
    /\ dedup_pc' = "rerun"
    /\ UNCHANGED <<df, dedup_grain, order_grain, is_desc, df_dedup>>
    /\ UNCHANGED otherThanDedup

----------------------------------------------------------------------------
(* col_rename_with_mapping *)

\* Columns of the input DataFrame of col_rename_with_mapping.
MaxCols == 2

\* A Python object passed as df: a pyspark DataFrame or something else.
PyObject(type, value) == [type |-> type, value |-> value]

\* isinstance(obj, DataFrame)
IsDataFrame(obj) == obj.type = "DataFrame"

\* The file at col_mapping_path: missing, not JSON, or a JSON object.
MissingFile == [kind |-> "missing", object |-> <<>>]

MalformedFile == [kind |-> "malformed", object |-> <<>>]

JsonFile(object) == [kind |-> "json", object |-> object]

\* col_mapping.get(c) without its default: an unmapped name becomes None.
GetWithoutDefault(col_mapping, c) ==
    IF c \in DOMAIN col_mapping THEN col_mapping[c] ELSE "None"

\* col_mapping.get(c, c)
Get(col_mapping, c) ==
    IF c \in DOMAIN col_mapping THEN col_mapping[c] ELSE c

\* d.select([col(c).alias(names[i]) for c in d.columns]): col(c) is column c
\* of d, which the analyzer refuses when two columns of d have that name.
selectAliased(d, names) ==
    IF \E i, j \in DOMAIN d.columns : i # j /\ d.columns[i] = d.columns[j]
    THEN Raised("AnalysisException")
    ELSE DataFrame([i \in DOMAIN d.columns |-> names[i]],
                   [r \in DOMAIN d.rows |->
                       [i \in DOMAIN d.columns |-> Cell(d, r, d.columns[i])]])

\* The body of the isinstance branch: open and parse the file, then select.
RenameWithFile(d, file, opened) ==
    IF file.kind = "missing"
    THEN [out |-> Raised("FileNotFoundError"), opened |-> opened + 1]
    ELSE IF file.kind = "malformed"
    THEN [out |-> Raised("JSONDecodeError"), opened |-> opened + 1]
    ELSE [out |-> selectAliased(d, [i \in DOMAIN d.columns |->
                                       Get(file.object, d.columns[i])]),
          opened |-> opened + 1]

\* col_rename_with_mapping with the mapping loaded ahead of the type check.
RenameLoadingFirst(obj, file, opened) ==
    IF file.kind = "missing"
    THEN [out |-> Raised("FileNotFoundError"), opened |-> opened + 1]
    ELSE IF file.kind = "malformed"
    THEN [out |-> Raised("JSONDecodeError"), opened |-> opened + 1]
    ELSE IF IsDataFrame(obj)
    THEN RenameWithFile(obj.value, file, opened)
    ELSE [out |-> Raised("TypeError"), opened |-> opened + 1]

\* col_rename_with_mapping(obj, col_mapping_path): what it returns or raises,
\* and the number of files opened so far.
col_rename_with_mapping(obj, file, opened) ==
    IF IsDataFrame(obj)
    THEN RenameWithFile(obj.value, file, opened)
    ELSE [out |-> Raised("TypeError"), opened |-> opened]

ColumnNames == {"a", "b", "c"}

NewNames == {"a", "b", "c", "d"}

\* Sequences of distinct column names.
ColumnLists ==
    UNION {{cs \in [1..n -> ColumnNames] : \A i, j \in 1..n : i # j => cs[i] # cs[j]} :
              n \in 1..MaxCols}

\* No row or one row, a cell being 1 or 2.
RenameRows(n) == {<<>>} \cup {<<row>> : row \in [1..n -> {1, 2}]}

\* What callers pass as df: DataFrames with distinct column names, and
\* objects that are no pyspark DataFrame.
RenameInputs ==
    UNION {{PyObject("DataFrame", DataFrame(cs, rows)) : rows \in RenameRows(Len(cs))} :
              cs \in ColumnLists}
    \cup {PyObject("NoneType", NoResult), PyObject("pandas.DataFrame", NoResult)}

\* The JSON objects: old name -> new name, for any set of old names.
Mappings == UNION {[keys -> NewNames] : keys \in SUBSET ColumnNames}

MappingFiles == {MissingFile, MalformedFile} \cup {JsonFile(m) : m \in Mappings}

\* rename_out = col_rename_with_mapping(rename_df, col_mapping_path)
ColRenameWithMapping ==
    /\ rename_pc = "start"
    /\ LET result == col_rename_with_mapping(rename_df, col_mapping_file, files_opened)
       IN  /\ rename_out' = result.out
           /\ files_opened' = result.opened
    /\ rename_pc' = "renamed"
    /\ UNCHANGED <<rename_df, col_mapping_file, rename_again>>
    /\ UNCHANGED otherThanRename

\* The caller applies the same mapping file to the DataFrame it got back.
ColRenameAgain ==
    /\ rename_pc = "renamed"
    /\ rename_out.status = "ok"
    /\ LET result == col_rename_with_mapping(PyObject("DataFrame", rename_out),
                                             col_mapping_file, files_opened)
       IN  /\ rename_again' = result.out
           /\ files_opened' = result.opened
    /\ rename_pc' = "rerun"
    /\ UNCHANGED <<rename_df, col_mapping_file, rename_out>>
    /\ UNCHANGED otherThanRename

----------------------------------------------------------------------------
(* annualize_salary *)

\* Amounts are decimals counted in thousandths: 10.01 is 10010.  The salary
\* columns hold amounts of at most two decimals (what convert_to_numeric
\* leaves), so that their exact mean is a whole number of thousandths.
Amount(units, hundredths) == units * 1000 + hundredths * 10

\* The type of the two salary columns.  On DecimalType columns (and on
\* integer columns, which hold whole amounts) the engine's arithmetic is
\* exact; on DoubleType columns it is IEEE 754 binary64.
SalaryTypes == {"decimal", "double"}

\* A missing salary_frequency: SQL NULL in a string column.
NullString == "<NULL>"

HourlyFactor == 2080

DailyFactor == 260

\* A computed number <<thousandths, ulps>>: the value that is ulps units in
\* the last place away from the double nearest to thousandths / 1000.
\* ulps is 0 for every decimal and for every double the engine prints as
\* that decimal.  <<NULL, 0>> is SQL NULL.
Number(thousandths, ulps) == <<thousandths, ulps>>

\* The binary64 sum of the doubles of amounts a and b, as ulps away from the
\* double of the exact sum.  Over the amounts of Salaries the sum is that
\* double for every pair but two: 10 + 10.01 = 20.009999999999998 and
\* 10.01 + 20 = 30.009999999999998, one ulp below 20.01 and 30.01.
DoubleSumUlps(a, b) ==
    IF {a, b} \in {{Amount(10, 0), Amount(10, 1)}, {Amount(10, 1), Amount(20, 0)}}
    THEN -1
    ELSE 0

\* a + b, a / 2 and a * n on nullable columns: NULL in, NULL out.
Plus(type, a, b) ==
    IF a = NULL \/ b = NULL THEN Number(NULL, 0)
    ELSE Number(a + b, IF type = "double" THEN DoubleSumUlps(a, b) ELSE 0)

\* Halving is exact in both arithmetics: the half of the double one ulp below
\* 20.01 is the double one ulp below 10.005.
Halved(x) == IF x[1] = NULL THEN x ELSE Number(x[1] \div 2, x[2])

\* Over the amounts of Salaries and their rounded means, the binary64
\* products by 2080 and by 260 are the doubles of the exact products.
Times(a, n) == IF a = NULL THEN NULL ELSE a * n

\* round(x, 2): to the nearest hundredth, a half going up (HALF_UP on the
\* decimal the value prints as).  A value just below a half, such as
\* 10.004999999999999, goes down.
round2(x) ==
    IF x[1] = NULL THEN NULL
    ELSE IF x[2] < 0 /\ x[1] % 10 = 5 THEN x[1] - 5
    ELSE ((x[1] + 5) \div 10) * 10

\* The chain with the factors of a week-based year for Daily.
AnnualizedDailyOfYear(frequency, value) ==
    IF frequency = "Annual" THEN value
    ELSE IF frequency = "Hourly" THEN Times(value, HourlyFactor)
    ELSE IF frequency = "Daily" THEN Times(value, 365)
    ELSE value

\* when(Annual, value).when(Hourly, value * 2080).when(Daily, value * 260)
\* .otherwise(value); a NULL frequency equals nothing and takes otherwise.
Annualized(frequency, value) ==
    IF frequency = "Annual" THEN value
    ELSE IF frequency = "Hourly" THEN Times(value, HourlyFactor)
    ELSE IF frequency = "Daily" THEN Times(value, DailyFactor)
    ELSE value

\* annualize_salary on one row whose salary columns have the given type: the
\* row with its four new columns.
annualize_salary(type, row) ==
    LET avg_salary ==
            round2(Halved(Plus(type, row.salary_min_range, row.salary_max_range)))
    IN  [salary_frequency            |-> row.salary_frequency,
         salary_min_range            |-> row.salary_min_range,
         salary_max_range            |-> row.salary_max_range,
         avg_salary                  |-> avg_salary,
         annualized_salary_min_range |-> Annualized(row.salary_frequency, row.salary_min_range),
         annualized_salary_max_range |-> Annualized(row.salary_frequency, row.salary_max_range),
         annualized_salary_avg_range |-> Annualized(row.salary_frequency, avg_salary)]

Frequencies == {"Annual", "Hourly", "Daily", "Weekly", "hourly", NullString}

Salaries == {NULL, Amount(0, 0), Amount(10, 0), Amount(10, 1), Amount(10, 2), Amount(20, 0)}

SalaryRows ==
    [salary_frequency : Frequencies, salary_min_range : Salaries, salary_max_range : Salaries]

NoRow == [salary_frequency |-> NullString, salary_min_range |-> NULL, salary_max_range |-> NULL]

\* salary_out = annualize_salary(salary_df), the DataFrame holding one row and
\* its salary columns being of type salary_type.
AnnualizeSalary ==
    /\ salary_pc = "start"
    /\ salary_out' = annualize_salary(salary_type, salary_df)
    /\ salary_pc' = "annualized"
    /\ UNCHANGED <<salary_type, salary_df>>
    /\ UNCHANGED otherThanSalary

----------------------------------------------------------------------------
(* convert_to_numeric, to_double = False *)

\* Pieces an input string is made of.
MaxChunks == 3

\* The largest value of the type "int".
IntMax == 2147483647

Digits == <<"0", "1", "2", "3", "4", "5", "6", "7", "8", "9">>

\* The characters the pattern [^0-9] does not match.
IsDigit(ch) == \E d \in DOMAIN Digits : Digits[d] = ch

DigitValue(ch) == (CHOOSE d \in DOMAIN Digits : Digits[d] = ch) - 1

\* regexp_replace(str, "[^0-9]", ""): every non-digit removed.
regexp_replace(str) == SelectSeq(str, IsDigit)

\* A cast that clamps a number beyond the int range to the largest int.
RECURSIVE CastIntSaturating(_, _)
CastIntSaturating(digits, acc) ==
    IF digits = <<>> THEN acc
    ELSE IF acc = NULL THEN CastIntSaturating(Tail(digits), DigitValue(Head(digits)))
    ELSE IF acc > (IntMax - DigitValue(Head(digits))) \div 10 THEN IntMax
    ELSE CastIntSaturating(Tail(digits), acc * 10 + DigitValue(Head(digits)))

\* cast("int") of a string of digits read so far as acc (NULL: none read):
\* NULL for the empty string and for a number beyond the int range.
RECURSIVE CastInt(_, _)
CastInt(digits, acc) ==
    IF digits = <<>> THEN acc
    ELSE IF acc = NULL THEN CastInt(Tail(digits), DigitValue(Head(digits)))
    ELSE IF acc > (IntMax - DigitValue(Head(digits))) \div 10 THEN NULL
    ELSE CastInt(Tail(digits), acc * 10 + DigitValue(Head(digits)))

\* convert_to_numeric on one cell, to_double = False.
convert_to_numeric(str) == CastInt(regexp_replace(str), NULL)

Chunks ==
    { <<"$", "1">>, <<",", "2", "3", "4">>, <<"a", "b", "c">>, <<"-">>, <<".", "5">>,
      <<"0">>, <<"2", "1", "4", "7", "4", "8", "3", "6", "4">>, <<"7">>, <<"8">> }

RECURSIVE Strings(_)
Strings(n) ==
    IF n = 0 THEN {<<>>}
    ELSE Strings(n - 1) \cup {s \o c : s \in Strings(n - 1), c \in Chunks}

\* numeric_out = the cell of convert_to_numeric(numeric_df, column, False)
ConvertToNumeric ==
    /\ numeric_pc = "start"
    /\ numeric_out' = convert_to_numeric(numeric_df)
    /\ numeric_pc' = "converted"
    /\ UNCHANGED numeric_df
    /\ UNCHANGED otherThanNumeric

----------------------------------------------------------------------------
(* export_to_csv *)

(***************************************************************************)
(* The file system under output_path.  dirs maps the staging directory,    *)
(* when it exists, to its entries (name -> node); a node is a file (its    *)
(* content) or a directory, Dir(entries), so that dirs holds the whole     *)
(* tree under the staging directory.  out_files maps each existing target  *)
(* file path to its content.  A name is the sequence of its pieces, the    *)
(* extension last; a path under the staging directory is a sequence of     *)
(* names, << >> the staging directory itself.  Two calls, 1 and 2, run     *)
(* with the same output_path, each in its own process, and every           *)
(* file-system operation of a call is a step the other call's steps        *)
(* interleave with.                                                        *)
(*                                                                         *)
(* The Spark write of mode "overwrite" is a job of the engine, on the      *)
(* local file system with checksum files:                                  *)
(*   - it tests whether the directory exists; when it does it tests again  *)
(*     and deletes it.  The delete tests a third time, then walks the      *)
(*     tree by paths: a directory is removed at once when it is empty,     *)
(*     otherwise its entries are listed and deleted one by one (an entry   *)
(*     that is gone is passed over) and the directory is removed; a        *)
(*     directory that cannot be removed makes the delete fail;             *)
(*   - the job's setup makes _temporary/0 in the directory;                *)
(*   - the task writes its part file in its attempt directory,             *)
(*     _temporary/0/_temporary/attempt_<job> (making the directories anew  *)
(*     when they are gone), and commits by renaming the attempt directory  *)
(*     to _temporary/0/task_<job>;                                         *)
(*   - the job's commit (committer algorithm 1) lists _temporary/0, which  *)
(*     all jobs on the directory share, and moves the files of each task   *)
(*     directory into the staging directory; it deletes _temporary by the  *)
(*     same walk as above, whose failure it ignores; it creates _SUCCESS.  *)
(* os.listdir is one step, the loop with its os.rename another.            *)
(* shutil.rmtree (the one of Python 3.11 on file descriptors) takes the    *)
(* directory's lstat, opens it and compares the two, lists it, and takes   *)
(* the entries one by one through the open directory: a file is unlinked,  *)
(* a directory gets the same treatment (stat, open and compare, list,      *)
(* entries) and is removed by its name in the directory above; at the end  *)
(* the staging directory is removed by its path.                           *)
(*                                                                         *)
(* stack holds, for each call, the directories it is walking: for rmtree   *)
(* the open descriptors, which follow a directory that is renamed and are  *)
(* dead once it is removed; for the engine's delete the paths.  stale      *)
(* tells what happened to the directory between rmtree's stat and its      *)
(* open.  Every system call of rmtree is a step.  Of the engine, a mkdirs,  *)
(* a file's creation with its checksum file, the move of a task            *)
(* directory's files, and the attempt to remove a directory together with  *)
(* the listing that follows its failure are one step each.  A call whose   *)
(* statement raises ends "failed", with the exception in raised.  overlap  *)
(* records the history: whether a call began while the other was between   *)
(* the beginning of its write and the end of its rmtree.                   *)
(*                                                                         *)
(* With two calls, one branch is never taken: between the stat and the     *)
(* open of a directory below the staging directory, another directory      *)
(* under its name (RmtreeOpenEntry) would take a third job's setup or      *)
(* task.                                                                   *)
(***************************************************************************)
Callers == {1, 2}

OutputPath == "output"

FileNames == {"jobs.csv", "report.csv"}

\* The dataset each call exports: two different ones, so that a file tells
\* whose it is.
Datasets == [c \in Callers |-> IF c = 1 THEN "dfA" ELSE "dfB"]

Other(c) == CHOOSE o \in Callers : o # c

\* temp_output_dir = output_path + "/temp_output_folder"
temp_output_dir(output_path) == <<output_path, "temp_output_folder">>

\* final_filename = output_path + "/" + file_name
final_filename(output_path, name) == <<output_path, name>>

\* A CSV file written with option("header", "true").
Csv(data) == [header |-> TRUE, data |-> data]

\* A file left by an earlier run, and a marker or checksum file.
OldCsv == [header |-> FALSE, data |-> "old"]

Marker == [header |-> FALSE, data |-> ""]

\* A directory with its entries.
Dir(entries) == [entries |-> entries]

IsDir(node) == DOMAIN node = {"entries"}

\* The single part file of coalesce(1), named after its job.
PartFile(job) == <<"part-00000-", job, "-c000", ".csv">>

Checksum(name) == <<".">> \o name \o <<".crc">>

IsChecksum(name) == name[1] = "." /\ name[Len(name)] = ".crc"

\* The job of call c.
JobOf(c) == IF c = 1 THEN "job1" ELSE "job2"

\* The directories of the committer.
Temporary == <<"_temporary">>

JobAttempt == <<"0">>

AttemptDir(job) == <<"attempt_", job>>

TaskDir(job) == <<"task_", job>>

\* _temporary/0
JobAttemptPath == <<Temporary, JobAttempt>>

\* _temporary/0/_temporary/attempt_<job>
TaskAttemptPath(job) == <<Temporary, JobAttempt, Temporary, AttemptDir(job)>>

\* _temporary/0/task_<job>
CommittedTaskPath(job) == <<Temporary, JobAttempt, TaskDir(job)>>

\* What the listing of a directory tells of an entry (d_type): a directory?
IsDirName(name) == name[1] \in {"_temporary", "0", "attempt_", "task_"}

Without(f, x) == [y \in DOMAIN f \ {x} |-> f[y]]

With(f, x, v) == [y \in DOMAIN f \cup {x} |-> IF y = x THEN v ELSE f[y]]

Front(path) == SubSeq(path, 1, Len(path) - 1)

Last(path) == path[Len(path)]

\* The entries of the directory at path, none when there is no directory.
Entries(d, path) == IF path \in DOMAIN d THEN d[path] ELSE << >>

\* Is there a directory at path p under the entries e?
RECURSIVE HasDir(_, _)
HasDir(e, p) ==
    IF p = << >> THEN TRUE
    ELSE /\ Head(p) \in DOMAIN e
         /\ IsDir(e[Head(p)])
         /\ HasDir(e[Head(p)].entries, Tail(p))

\* The entries of the directory at path p under the entries e.
RECURSIVE At(_, _)
At(e, p) == IF p = << >> THEN e ELSE At(e[Head(p)].entries, Tail(p))

\* e with the entries of the directory at path p replaced by new.
RECURSIVE Changed(_, _, _)
Changed(e, p, new) ==
    IF p = << >> THEN new
    ELSE With(e, Head(p), Dir(Changed(e[Head(p)].entries, Tail(p), new)))

\* e with the directories of path p made where they are missing (mkdirs).
RECURSIVE Made(_, _)
Made(e, p) ==
    IF p = << >> THEN e
    ELSE With(e, Head(p),
              Dir(Made(IF Head(p) \in DOMAIN e /\ IsDir(e[Head(p)])
                       THEN e[Head(p)].entries ELSE << >>,
                       Tail(p))))

\* Is there a directory at path p under the staging directory?
DirExists(d, p) ==
    /\ temp_output_dir(OutputPath) \in DOMAIN d
    /\ HasDir(d[temp_output_dir(OutputPath)], p)

\* The names in the directory at p, none when it does not exist.
Listing(d, p) ==
    IF DirExists(d, p) THEN DOMAIN At(d[temp_output_dir(OutputPath)], p) ELSE {}

\* The entry name of the directory at p is unlinked (a file) or removed (an
\* empty directory).
Unlinked(d, p, name) ==
    [d EXCEPT ![temp_output_dir(OutputPath)] = Changed(@, p, Without(At(@, p), name))]

\* The directories of p are made where they are missing, the staging
\* directory too.
MadeDirs(d, p) ==
    [q \in {temp_output_dir(OutputPath)} |-> Made(Entries(d, temp_output_dir(OutputPath)), p)]

\* The file name is created or replaced in the directory at p, made with its
\* parents when it does not exist.
Created(d, p, name, v) ==
    LET made == MadeDirs(d, p)[temp_output_dir(OutputPath)]
    IN  [q \in {temp_output_dir(OutputPath)} |-> Changed(made, p, With(At(made, p), name, v))]

\* The directory at p is renamed to q, whose parent exists.
DirRenamed(d, p, q) ==
    LET e == d[temp_output_dir(OutputPath)]
        moved == Dir(At(e, p))
        left == Changed(e, Front(p), Without(At(e, Front(p)), Last(p)))
    IN  [d EXCEPT ![temp_output_dir(OutputPath)] =
            Changed(left, Front(q), With(At(left, Front(q)), Last(q), moved))]

\* The files of the task directory at p are moved into the staging
\* directory, each with its checksum file; a checksum file in the staging
\* directory whose file arrives without one is deleted.
TaskMerged(d, p) ==
    LET e == d[temp_output_dir(OutputPath)]
        task == At(e, p)
        data == {n \in DOMAIN task : ~IsChecksum(n) /\ ~IsDir(task[n])}
        sums == {Checksum(n) : n \in data}
        moved == data \cup (sums \cap DOMAIN task)
        left == Changed(e, p, [n \in DOMAIN task \ moved |-> task[n]])
    IN  [d EXCEPT ![temp_output_dir(OutputPath)] =
            [n \in (DOMAIN left \ sums) \cup moved |->
                IF n \in moved THEN task[n] ELSE left[n]]]

\* mode="append": the job deletes nothing.
pathNeverCleared(d, path) == FALSE

\* mode="overwrite": fs.exists(path), the test before the delete.
pathExists(d, path) == path \in DOMAIN d

\* The loop without its test: any listed file is taken.
endswithAnything(name) == Len(name) > 0

\* file.endswith(".csv")
endswithCsv(name) == Len(name) > 0 /\ name[Len(name)] = ".csv"

\* The arguments of the calls and the state before them.
exportArgs == <<prior, export_df, file_name>>

\* A directory being walked: the name it was listed under, where it is, the
\* listed entries still to take, the entry whose stat is taken, whether the
\* directory is gone under the descriptor (rmtree), whether all its entries
\* could be deleted (the engine's delete).
Frame(name, at, todo) ==
    [name |-> name, at |-> at, todo |-> todo, entry |-> << >>, dead |-> FALSE, ok |-> TRUE]

Top(s) == s[Len(s)]

WithTop(s, frame) == [s EXCEPT ![Len(s)] = frame]

\* Call c goes on to its next position.
Goes(c, position) ==
    /\ pc' = [pc EXCEPT ![c] = position]
    /\ UNCHANGED raised

\* Call c ends with its statement raising exception.
Fails(c, exception) ==
    /\ pc' = [pc EXCEPT ![c] = "failed"]
    /\ raised' = [raised EXCEPT ![c] = exception]

\* The positions at which a call holds open descriptors for its rmtree.
RmtreePositions == {"opened", "removing", "entry"}

\* Call o has taken the stat of the directory at p and not yet opened it.
Awaits(o, p) ==
    \/ pc[o] = "lstat" /\ p = << >>
    \/ /\ pc[o] = "entry"
       /\ ~Top(stack[o]).dead
       /\ Append(Top(stack[o]).at, Top(stack[o]).entry) = p

\* The descriptors of s after the directory at p is removed.
Killed(s, p) ==
    [i \in 1..Len(s) |-> IF s[i].at = p THEN [s[i] EXCEPT !.dead = TRUE] ELSE s[i]]

\* The descriptors of s after the directory at p is renamed to q.
Followed(s, p, q) ==
    [i \in 1..Len(s) |-> IF s[i].at = p /\ ~s[i].dead THEN [s[i] EXCEPT !.at = q] ELSE s[i]]

\* Call c removes the directory at p, which is empty, and is left with the
\* stack own: a descriptor another call holds for it is dead, and a stat
\* another call took of it is that of a directory that is no more.
Removes(c, p, own) ==
    /\ dirs' = IF p = << >>
               THEN Without(dirs, temp_output_dir(OutputPath))
               ELSE Unlinked(dirs, Front(p), Last(p))
    /\ stack' = [o \in Callers |->
                    IF o = c THEN own
                    ELSE IF pc[o] \in RmtreePositions THEN Killed(stack[o], p)
                    ELSE stack[o]]
    /\ stale' = [o \in Callers |->
                    IF o # c /\ Awaits(o, p) /\ stale[o] = "same" THEN "freed" ELSE stale[o]]

\* df.coalesce(1).write.option("header", "true").csv(temp_output_dir, mode="overwrite"),
\* first operation: does the directory exist?
WriteExists(c) ==
    /\ pc[c] = "start"
    /\ IF pathExists(dirs, temp_output_dir(OutputPath))
       THEN Goes(c, "exists")
       ELSE Goes(c, "cleared")
    /\ overlap' = (overlap \/ pc[Other(c)] \notin {"start", "done", "failed"})
    /\ UNCHANGED <<dirs, out_files, exportArgs, files, stack, stale>>
    /\ UNCHANGED otherThanExport

\* The job tests again before it deletes: a directory gone since the first
\* test is not deleted, and the job goes on to its setup.
WriteExistsAgain(c) ==
    /\ pc[c] = "exists"
    /\ IF pathExists(dirs, temp_output_dir(OutputPath))
       THEN Goes(c, "deleting")
       ELSE Goes(c, "cleared")
    /\ UNCHANGED <<dirs, out_files, exportArgs, files, stack, stale, overlap>>
    /\ UNCHANGED otherThanExport

\* The delete of the directory begins with a test of its own.  A directory
\* gone since the job's test makes the delete return false and the write raise
\* ("Unable to clear output directory").
WriteDelete(c) ==
    /\ pc[c] = "deleting"
    /\ IF temp_output_dir(OutputPath) \in DOMAIN dirs
       THEN Goes(c, "found")
       ELSE Fails(c, "IOException")
    /\ UNCHANGED <<dirs, out_files, exportArgs, files, stack, stale, overlap>>
    /\ UNCHANGED otherThanExport

\* The delete tries to remove the directory as it is: one that is gone by now
\* counts as deleted, an empty one is removed; the entries of another are
\* listed.
WriteList(c) ==
    /\ pc[c] = "found"
    /\ IF ~DirExists(dirs, << >>)
       THEN /\ Goes(c, "cleared")
            /\ UNCHANGED <<dirs, stack, stale>>
       ELSE IF Listing(dirs, << >>) = {}
       THEN /\ Removes(c, << >>, << >>)
            /\ Goes(c, "cleared")
       ELSE /\ stack' = [stack EXCEPT ![c] = <<Frame(<< >>, << >>, Listing(dirs, << >>))>>]
            /\ Goes(c, "clearing")
            /\ UNCHANGED <<dirs, stale>>
    /\ UNCHANGED <<out_files, exportArgs, files, overlap>>
    /\ UNCHANGED otherThanExport

\* The delete (of the write, or of the commit's cleanup) takes one listed
\* entry of the directory it is in, in any order.  An entry that is gone is
\* passed over; a file is deleted; a directory is removed at once when it is
\* empty, otherwise its entries are listed, to be taken next.
WriteUnlink(c) ==
    /\ pc[c] \in {"clearing", "cleaning"}
    /\ LET frame == Top(stack[c])
       IN  \E name \in frame.todo :
              LET p == Append(frame.at, name)
                  taken == WithTop(stack[c], [frame EXCEPT !.todo = @ \ {name}])
              IN  IF name \notin Listing(dirs, frame.at)
                  THEN /\ stack' = [stack EXCEPT ![c] = taken]
                       /\ UNCHANGED <<dirs, stale>>
                  ELSE IF ~DirExists(dirs, p)
                  THEN /\ dirs' = Unlinked(dirs, frame.at, name)
                       /\ stack' = [stack EXCEPT ![c] = taken]
                       /\ UNCHANGED stale
                  ELSE IF Listing(dirs, p) = {}
                  THEN Removes(c, p, taken)
                  ELSE /\ stack' = [stack EXCEPT ![c] =
                                       Append(stack[c], Frame(name, p, Listing(dirs, p)))]
                       /\ UNCHANGED <<dirs, stale>>
    /\ Goes(c, pc[c])
    /\ UNCHANGED <<out_files, exportArgs, files, overlap>>
    /\ UNCHANGED otherThanExport

\* The delete has taken the listed entries of a directory below the one it
\* began with, and removes it.  A directory that is gone counts as deleted;
\* one of which an entry could not be deleted is left, and one that holds
\* entries again cannot be removed: the directory above has then an entry
\* that could not be deleted.
WriteRmdirEntry(c) ==
    /\ pc[c] \in {"clearing", "cleaning"}
    /\ Len(stack[c]) > 1
    /\ Top(stack[c]).todo = {}
    /\ LET frame == Top(stack[c])
           above == stack[c][Len(stack[c]) - 1]
           deleted == frame.ok /\ Listing(dirs, frame.at) = {}
           own == WithTop(Front(stack[c]),
                          [above EXCEPT !.todo = @ \ {frame.name}, !.ok = @ /\ deleted])
       IN  IF deleted /\ DirExists(dirs, frame.at)
           THEN Removes(c, frame.at, own)
           ELSE /\ stack' = [stack EXCEPT ![c] = own]
                /\ UNCHANGED <<dirs, stale>>
    /\ Goes(c, pc[c])
    /\ UNCHANGED <<out_files, exportArgs, files, overlap>>
    /\ UNCHANGED otherThanExport

\* The delete of the write removes the staging directory, unless an entry
\* could not be deleted: the write then raises.  A directory that is gone
\* counts as deleted; one that holds entries again cannot be removed, and the
\* write raises.
WriteRmdir(c) ==
    /\ pc[c] = "clearing"
    /\ Len(stack[c]) = 1
    /\ Top(stack[c]).todo = {}
    /\ IF ~Top(stack[c]).ok
       THEN /\ Fails(c, "IOException")
            /\ stack' = [stack EXCEPT ![c] = << >>]
            /\ UNCHANGED <<dirs, stale>>
       ELSE IF ~DirExists(dirs, << >>)
       THEN /\ Goes(c, "cleared")
            /\ stack' = [stack EXCEPT ![c] = << >>]
            /\ UNCHANGED <<dirs, stale>>
       ELSE IF Listing(dirs, << >>) # {}
       THEN /\ Fails(c, "IOException")
            /\ stack' = [stack EXCEPT ![c] = << >>]
            /\ UNCHANGED <<dirs, stale>>
       ELSE /\ Removes(c, << >>, << >>)
            /\ Goes(c, "cleared")
    /\ UNCHANGED <<out_files, exportArgs, files, overlap>>
    /\ UNCHANGED otherThanExport

\* The setup of the job: mkdirs of _temporary/0 in the directory.  What
\* another job has made of it is left as it is.
WriteSetup(c) ==
    /\ pc[c] = "cleared"
    /\ dirs' = MadeDirs(dirs, JobAttemptPath)
    /\ Goes(c, "setup")
    /\ UNCHANGED <<out_files, exportArgs, files, stack, stale, overlap>>
    /\ UNCHANGED otherThanExport

\* The task of the job writes its part file, with its checksum file, in its
\* attempt directory, making the directories it needs.
WriteTask(c) ==
    /\ pc[c] = "setup"
    /\ dirs' = Created(Created(dirs, TaskAttemptPath(JobOf(c)),
                               PartFile(JobOf(c)), Csv(export_df[c])),
                       TaskAttemptPath(JobOf(c)), Checksum(PartFile(JobOf(c))), Marker)
    /\ Goes(c, "attempted")
    /\ UNCHANGED <<out_files, exportArgs, files, stack, stale, overlap>>
    /\ UNCHANGED otherThanExport

\* The task commits: its attempt directory, if it is still there, is renamed
\* to its task directory.  A descriptor that another call's rmtree holds for
\* the directory follows it; a stat that rmtree took of it finds another
\* directory, or none.
WriteTaskCommit(c) ==
    /\ pc[c] = "attempted"
    /\ IF DirExists(dirs, TaskAttemptPath(JobOf(c)))
       THEN /\ dirs' = DirRenamed(dirs, TaskAttemptPath(JobOf(c)), CommittedTaskPath(JobOf(c)))
            /\ stack' = [o \in Callers |->
                            IF o # c /\ pc[o] \in RmtreePositions
                            THEN Followed(stack[o], TaskAttemptPath(JobOf(c)),
                                          CommittedTaskPath(JobOf(c)))
                            ELSE stack[o]]
            /\ stale' = [o \in Callers |->
                            IF o # c /\ Awaits(o, TaskAttemptPath(JobOf(c)))
                            THEN "moved" ELSE stale[o]]
       ELSE UNCHANGED <<dirs, stack, stale>>
    /\ Goes(c, "tasked")
    /\ UNCHANGED <<out_files, exportArgs, files, overlap>>
    /\ UNCHANGED otherThanExport

\* The commit of the job lists the task directories in _temporary/0, those
\* of any job.  Without _temporary/0 the listing fails: the job is aborted
\* and the write raises.
WriteMergeList(c) ==
    /\ pc[c] = "tasked"
    /\ IF DirExists(dirs, JobAttemptPath)
       THEN /\ stack' = [stack EXCEPT ![c] =
                            <<Frame(JobAttempt, JobAttemptPath,
                                    Listing(dirs, JobAttemptPath) \ {Temporary})>>]
            /\ Goes(c, "merging")
       ELSE /\ Fails(c, "JobAborted")
            /\ UNCHANGED stack
    /\ UNCHANGED <<dirs, out_files, exportArgs, files, stale, overlap>>
    /\ UNCHANGED otherThanExport

\* The commit moves the files of one listed task directory into the staging
\* directory.  A task directory that is gone fails the listing of its files:
\* the job is aborted and the write raises.
WriteMerge(c) ==
    /\ pc[c] = "merging"
    /\ LET frame == Top(stack[c])
       IN  \E name \in frame.todo :
              IF DirExists(dirs, Append(frame.at, name))
              THEN /\ dirs' = TaskMerged(dirs, Append(frame.at, name))
                   /\ stack' = [stack EXCEPT ![c] =
                                   WithTop(@, [frame EXCEPT !.todo = @ \ {name}])]
                   /\ Goes(c, "merging")
              ELSE /\ Fails(c, "JobAborted")
                   /\ stack' = [stack EXCEPT ![c] = << >>]
                   /\ UNCHANGED dirs
    /\ UNCHANGED <<out_files, exportArgs, files, stale, overlap>>
    /\ UNCHANGED otherThanExport

\* The commit, the task directories merged, deletes _temporary: one that is
\* gone or empty is done with at once; the entries of another are listed.
WriteCleanup(c) ==
    /\ pc[c] = "merging"
    /\ Top(stack[c]).todo = {}
    /\ IF ~DirExists(dirs, <<Temporary>>)
       THEN /\ Goes(c, "cleaned")
            /\ stack' = [stack EXCEPT ![c] = << >>]
            /\ UNCHANGED <<dirs, stale>>
       ELSE IF Listing(dirs, <<Temporary>>) = {}
       THEN /\ Removes(c, <<Temporary>>, << >>)
            /\ Goes(c, "cleaned")
       ELSE /\ stack' = [stack EXCEPT ![c] =
                            <<Frame(Temporary, <<Temporary>>, Listing(dirs, <<Temporary>>))>>]
            /\ Goes(c, "cleaning")
            /\ UNCHANGED <<dirs, stale>>
    /\ UNCHANGED <<out_files, exportArgs, files, overlap>>
    /\ UNCHANGED otherThanExport

\* The commit's delete removes _temporary; when it cannot, _temporary stays
\* and the commit goes on.
WriteCleanupRmdir(c) ==
    /\ pc[c] = "cleaning"
    /\ Len(stack[c]) = 1
    /\ Top(stack[c]).todo = {}
    /\ IF /\ Top(stack[c]).ok
          /\ DirExists(dirs, <<Temporary>>)
          /\ Listing(dirs, <<Temporary>>) = {}
       THEN Removes(c, <<Temporary>>, << >>)
       ELSE /\ stack' = [stack EXCEPT ![c] = << >>]
            /\ UNCHANGED <<dirs, stale>>
    /\ Goes(c, "cleaned")
    /\ UNCHANGED <<out_files, exportArgs, files, overlap>>
    /\ UNCHANGED otherThanExport

\* The commit creates _SUCCESS, making the directory when it is gone; the
\* write returns.
WriteSuccess(c) ==
    /\ pc[c] = "cleaned"
    /\ dirs' = Created(Created(dirs, << >>, <<"_SUCCESS">>, Marker),
                       << >>, Checksum(<<"_SUCCESS">>), Marker)
    /\ Goes(c, "written")
    /\ UNCHANGED <<out_files, exportArgs, files, stack, stale, overlap>>
    /\ UNCHANGED otherThanExport

\* files = os.listdir(temp_output_dir)
List(c) ==
    /\ pc[c] = "written"
    /\ IF temp_output_dir(OutputPath) \in DOMAIN dirs
       THEN /\ files' = [files EXCEPT ![c] = DOMAIN dirs[temp_output_dir(OutputPath)]]
            /\ Goes(c, "listed")
       ELSE /\ Fails(c, "FileNotFoundError")
            /\ UNCHANGED files
    /\ UNCHANGED <<dirs, out_files, exportArgs, stack, stale, overlap>>
    /\ UNCHANGED otherThanExport

\* os.rename(os.path.join(temp_output_dir, file), final_filename): file moves
\* onto final_filename, replacing a file that is there; FileNotFoundError
\* when file is gone.
MoveCsv(c, file) ==
    LET tmp == temp_output_dir(OutputPath)
    IN  IF tmp \in DOMAIN dirs /\ file \in DOMAIN dirs[tmp]
        THEN /\ out_files' = With(out_files, final_filename(OutputPath, file_name[c]),
                                  dirs[tmp][file])
             /\ dirs' = [dirs EXCEPT ![tmp] = Without(dirs[tmp], file)]
             /\ Goes(c, "renamed")
        ELSE /\ Fails(c, "FileNotFoundError")
             /\ UNCHANGED <<dirs, out_files>>

\* for file in files: if file.endswith(".csv"): os.rename(...); break
\* os.listdir returns the names in arbitrary order: any .csv may come first.
Rename(c) ==
    /\ pc[c] = "listed"
    /\ IF \E file \in files[c] : endswithCsv(file)
       THEN \E file \in {f \in files[c] : endswithCsv(f)} : MoveCsv(c, file)
       ELSE /\ Goes(c, "renamed")
            /\ UNCHANGED <<dirs, out_files>>
    /\ UNCHANGED <<exportArgs, files, stack, stale, overlap>>
    /\ UNCHANGED otherThanExport

\* Call c's rmtree raises.
RmtreeFails(c, exception) ==
    /\ Fails(c, exception)
    /\ stack' = [stack EXCEPT ![c] = << >>]
    /\ stale' = [stale EXCEPT ![c] = "same"]

\* shutil.rmtree(temp_output_dir) begins with os.lstat(path);
\* FileNotFoundError when the directory is gone.
RmtreeLstat(c) ==
    /\ pc[c] = "renamed"
    /\ IF temp_output_dir(OutputPath) \in DOMAIN dirs
       THEN Goes(c, "lstat")
       ELSE Fails(c, "FileNotFoundError")
    /\ UNCHANGED <<dirs, out_files, exportArgs, files, stack, stale, overlap>>
    /\ UNCHANGED otherThanExport

\* rmtree opens the path and compares what it opened with what lstat saw:
\* FileNotFoundError when no directory is there; a directory removed and made
\* anew since the lstat is another one, and rmtree raises OSError ("Cannot
\* call rmtree on a symbolic link"), unless the file system gave the new
\* directory the inode of the old one.
RmtreeOpen(c) ==
    /\ pc[c] = "lstat"
    /\ IF temp_output_dir(OutputPath) \notin DOMAIN dirs
       THEN RmtreeFails(c, "FileNotFoundError")
       ELSE \/ /\ stale[c] # "same"
               /\ RmtreeFails(c, "OSError")
            \/ /\ Goes(c, "opened")
               /\ stack' = [stack EXCEPT ![c] = <<Frame(<< >>, << >>, {})>>]
               /\ stale' = [stale EXCEPT ![c] = "same"]
    /\ UNCHANGED <<dirs, out_files, exportArgs, files, overlap>>
    /\ UNCHANGED otherThanExport

\* rmtree lists the directory it has opened, the staging directory or one
\* below it; a directory removed since lists as empty.
RmtreeScan(c) ==
    /\ pc[c] = "opened"
    /\ LET frame == Top(stack[c])
       IN  stack' = [stack EXCEPT ![c] =
                        WithTop(@, [frame EXCEPT !.todo =
                                       IF frame.dead THEN {} ELSE Listing(dirs, frame.at)])]
    /\ Goes(c, "removing")
    /\ UNCHANGED <<dirs, out_files, exportArgs, files, stale, overlap>>
    /\ UNCHANGED otherThanExport

\* rmtree takes one listed entry of the directory it is in, in any order,
\* through the descriptor: a file is unlinked, the stat of a directory is
\* taken; FileNotFoundError when the entry is gone, or the directory it was
\* in.
RmtreeUnlink(c) ==
    /\ pc[c] = "removing"
    /\ LET frame == Top(stack[c])
       IN  \E name \in frame.todo :
              IF frame.dead \/ name \notin Listing(dirs, frame.at)
              THEN /\ RmtreeFails(c, "FileNotFoundError")
                   /\ UNCHANGED dirs
              ELSE IF IsDirName(name)
              THEN /\ stack' = [stack EXCEPT ![c] = WithTop(@, [frame EXCEPT !.entry = name])]
                   /\ Goes(c, "entry")
                   /\ UNCHANGED <<dirs, stale>>
              ELSE /\ dirs' = Unlinked(dirs, frame.at, name)
                   /\ stack' = [stack EXCEPT ![c] =
                                   WithTop(@, [frame EXCEPT !.todo = @ \ {name}])]
                   /\ Goes(c, "removing")
                   /\ UNCHANGED stale
    /\ UNCHANGED <<out_files, exportArgs, files, overlap>>
    /\ UNCHANGED otherThanExport

\* rmtree opens the directory whose stat it took, through the descriptor of
\* the directory it is in, and compares the two, as it did for the staging
\* directory.  A directory renamed since the stat is not the one found under
\* the name.
RmtreeOpenEntry(c) ==
    /\ pc[c] = "entry"
    /\ LET frame == Top(stack[c])
           p == Append(frame.at, frame.entry)
       IN  IF frame.dead \/ ~DirExists(dirs, p)
           THEN RmtreeFails(c, "FileNotFoundError")
           ELSE \/ /\ stale[c] # "same"
                   /\ RmtreeFails(c, "OSError")
                \/ /\ stale[c] # "moved"
                   /\ Goes(c, "opened")
                   /\ stack' = [stack EXCEPT ![c] =
                                   Append(WithTop(@, [frame EXCEPT !.entry = << >>]),
                                          Frame(frame.entry, p, {}))]
                   /\ stale' = [stale EXCEPT ![c] = "same"]
    /\ UNCHANGED <<dirs, out_files, exportArgs, files, overlap>>
    /\ UNCHANGED otherThanExport

\* rmtree has taken the listed entries of a directory below the staging
\* directory and removes it, os.rmdir of its name through the descriptor of
\* the directory above: FileNotFoundError when nothing is there under the
\* name, OSError (ENOTEMPTY) when the directory there holds entries.
RmtreeRmdirEntry(c) ==
    /\ pc[c] = "removing"
    /\ Len(stack[c]) > 1
    /\ Top(stack[c]).todo = {}
    /\ LET frame == Top(stack[c])
           above == stack[c][Len(stack[c]) - 1]
           p == Append(above.at, frame.name)
       IN  IF above.dead \/ ~DirExists(dirs, p)
           THEN /\ RmtreeFails(c, "FileNotFoundError")
                /\ UNCHANGED dirs
           ELSE IF Listing(dirs, p) # {}
           THEN /\ RmtreeFails(c, "ENOTEMPTY")
                /\ UNCHANGED dirs
           ELSE /\ Removes(c, p, WithTop(Front(stack[c]),
                                         [above EXCEPT !.todo = @ \ {frame.name}]))
                /\ Goes(c, "removing")
    /\ UNCHANGED <<out_files, exportArgs, files, overlap>>
    /\ UNCHANGED otherThanExport

\* rmtree ends with os.rmdir of the path: FileNotFoundError when no
\* directory is there, OSError (ENOTEMPTY) when the directory there holds
\* entries.
RmtreeRmdir(c) ==
    /\ pc[c] = "removing"
    /\ Len(stack[c]) = 1
    /\ Top(stack[c]).todo = {}
    /\ IF temp_output_dir(OutputPath) \notin DOMAIN dirs
       THEN /\ RmtreeFails(c, "FileNotFoundError")
            /\ UNCHANGED dirs
       ELSE IF DOMAIN dirs[temp_output_dir(OutputPath)] # {}
       THEN /\ RmtreeFails(c, "ENOTEMPTY")
            /\ UNCHANGED dirs
       ELSE /\ Removes(c, << >>, << >>)
            /\ Goes(c, "done")
    /\ UNCHANGED <<out_files, exportArgs, files, overlap>>
    /\ UNCHANGED otherThanExport

\* What the output directory may hold before the calls: nothing, or a
\* staging directory left with an old job's files and the target files of
\* earlier calls.
LeftoverDir ==
    [p \in {temp_output_dir(OutputPath)} |->
        [name \in {PartFile("old"), <<"_SUCCESS">>} |->
            IF name = PartFile("old") THEN OldCsv ELSE Marker]]

OldFiles == [path \in {final_filename(OutputPath, name) : name \in FileNames} |-> OldCsv]

Priors ==
    { [dirs |-> << >>, out_files |-> << >>],
      [dirs |-> LeftoverDir, out_files |-> OldFiles] }

\* The file names of the two calls: the same name or two different ones.
CallFileNames == {names \in [Callers -> FileNames] : names[1] = "jobs.csv"}

----------------------------------------------------------------------------
(* Specifications: one function each, the others idle *)

DedupIdle ==
    /\ df = NoResult
    /\ dedup_grain = <<>>
    /\ order_grain = <<>>
    /\ is_desc = FALSE
    /\ df_dedup = NoResult
    /\ df_again = NoResult
    /\ dedup_pc = "idle"

RenameIdle ==
    /\ rename_df = PyObject("NoneType", NoResult)
    /\ col_mapping_file = MissingFile
    /\ rename_out = NoResult
    /\ rename_again = NoResult
    /\ files_opened = 0
    /\ rename_pc = "idle"

SalaryIdle ==
    /\ salary_type = "decimal"
    /\ salary_df = NoRow
    /\ salary_out = NoRow
    /\ salary_pc = "idle"

NumericIdle ==
    /\ numeric_df = <<>>
    /\ numeric_out = NULL
    /\ numeric_pc = "idle"

ExportIdle ==
    /\ dirs = << >>
    /\ out_files = << >>
    /\ prior = [dirs |-> << >>, out_files |-> << >>]
    /\ export_df = Datasets
    /\ file_name = [c \in Callers |-> "jobs.csv"]
    /\ files = [c \in Callers |-> {}]
    /\ stack = [c \in Callers |-> << >>]
    /\ stale = [c \in Callers |-> "same"]
    /\ pc = [c \in Callers |-> "idle"]
    /\ raised = [c \in Callers |-> "none"]
    /\ overlap = FALSE

InitDedup ==
    /\ \E columns \in DedupColumns :
          /\ \E rows \in DedupRows : df = DataFrame(columns, rows)
          /\ dedup_grain \in DedupGrains(columns)
          /\ order_grain \in OrderGrains(columns)
    /\ is_desc \in BOOLEAN
    /\ df_dedup = NoResult
    /\ df_again = NoResult
    /\ dedup_pc = "start"
    /\ RenameIdle
    /\ SalaryIdle
    /\ NumericIdle
    /\ ExportIdle

InitRename ==
    /\ rename_df \in RenameInputs
    /\ col_mapping_file \in MappingFiles
    /\ rename_out = NoResult
    /\ rename_again = NoResult
    /\ files_opened = 0
    /\ rename_pc = "start"
    /\ DedupIdle
    /\ SalaryIdle
    /\ NumericIdle
    /\ ExportIdle

InitSalary ==
    /\ salary_type \in SalaryTypes
    /\ salary_df \in SalaryRows
    /\ salary_out = NoRow
    /\ salary_pc = "start"
    /\ DedupIdle
    /\ RenameIdle
    /\ NumericIdle
    /\ ExportIdle

InitNumeric ==
    /\ numeric_df \in Strings(MaxChunks)
    /\ numeric_out = NULL
    /\ numeric_pc = "start"
    /\ DedupIdle
    /\ RenameIdle
    /\ SalaryIdle
    /\ ExportIdle

InitExport ==
    /\ prior \in Priors
    /\ dirs = prior.dirs
    /\ out_files = prior.out_files
    /\ export_df = Datasets
    /\ file_name \in CallFileNames
    /\ files = [c \in Callers |-> {}]
    /\ stack = [c \in Callers |-> << >>]
    /\ stale = [c \in Callers |-> "same"]
    /\ pc = [c \in Callers |-> "start"]
    /\ raised = [c \in Callers |-> "none"]
    /\ overlap = FALSE
    /\ DedupIdle
    /\ RenameIdle
    /\ SalaryIdle
    /\ NumericIdle

NextDedup == RemoveDuplicates \/ RemoveDuplicatesAgain

NextRename == ColRenameWithMapping \/ ColRenameAgain

NextSalary == AnnualizeSalary

NextNumeric == ConvertToNumeric

NextExport ==
    \E c \in Callers :
        \/ WriteExists(c)
        \/ WriteExistsAgain(c)
        \/ WriteDelete(c)
        \/ WriteList(c)
        \/ WriteUnlink(c)
        \/ WriteRmdirEntry(c)
        \/ WriteRmdir(c)
        \/ WriteSetup(c)
        \/ WriteTask(c)
        \/ WriteTaskCommit(c)
        \/ WriteMergeList(c)
        \/ WriteMerge(c)
        \/ WriteCleanup(c)
        \/ WriteCleanupRmdir(c)
        \/ WriteSuccess(c)
        \/ List(c)
        \/ Rename(c)
        \/ RmtreeLstat(c)
        \/ RmtreeOpen(c)
        \/ RmtreeScan(c)
        \/ RmtreeUnlink(c)
        \/ RmtreeOpenEntry(c)
        \/ RmtreeRmdirEntry(c)
        \/ RmtreeRmdir(c)

SpecDedup == InitDedup /\ [][NextDedup]_vars

SpecRename == InitRename /\ [][NextRename]_vars

SpecSalary == InitSalary /\ [][NextSalary]_vars

SpecNumeric == InitNumeric /\ [][NextNumeric]_vars

SpecExport == InitExport /\ [][NextExport]_vars

----------------------------------------------------------------------------
(* Claims about remove_duplicates *)

Count(s, x) == Cardinality({i \in DOMAIN s : s[i] = x})

\* The same rows with the same multiplicities, in any order.
SameRows(s, t) ==
    /\ Len(s) = Len(t)
    /\ \A x \in Range(s) \cup Range(t) : Count(s, x) = Count(t, x)

\* Row i of d restricted to the columns named in columns.
Projected(d, i, columns) == [k \in DOMAIN columns |-> Cell(d, i, columns[k])]

\* out holds exactly the rows of d at the positions in S, as far as out's
\* columns go.
Survivors(d, out, S) ==
    SameRows(out.rows, [k \in 1..Cardinality(S) |->
                           Projected(d, SelectAt([i \in DOMAIN d.rows |-> i], S)[k],
                                     out.columns)])

\* One position of every partition of d, and no second one.
OnePerPartition(d, grain, S) ==
    \A i \in DOMAIN d.rows : Cardinality(S \cap Partition(d, i, grain)) = 1

Deduped == dedup_pc \in {"deduped", "rerun"} /\ df_dedup.status = "ok"

\* C1: the output of remove_duplicates has at most as many rows as the input,
\* and it holds exactly one input row of every group of equal dedup_grain
\* values: no group is lost and no group keeps two rows.
C1_OneRowPerGroup ==
    Deduped =>
        /\ Len(df_dedup.rows) <= Len(df.rows)
        /\ \E S \in SUBSET DOMAIN df.rows :
               /\ OnePerPartition(df, dedup_grain, S)
               /\ Survivors(df, df_dedup, S)

\* A call on three rows in two groups, one group of two rows: two rows remain.
C1_Witness ==
    /\ Deduped
    /\ "rank" \notin Range(df.columns)
    /\ dedup_grain = <<"k">>
    /\ Len(df.rows) = 3
    /\ Len(df_dedup.rows) = 2
    /\ \E i, j \in DOMAIN df.rows : i # j /\ df.rows[i] = df.rows[j]

\* The order of the claim: NULL is the least value, keys compare
\* lexicographically over the order columns.
ValueLess(a, b) == a # b /\ (a = NULL \/ (b # NULL /\ a < b))

KeyLess(d, i, j, order) ==
    \E k \in DOMAIN order :
        /\ ValueLess(Cell(d, i, order[k]), Cell(d, j, order[k]))
        /\ \A m \in 1..(k - 1) : Cell(d, i, order[m]) = Cell(d, j, order[m])

\* Row j has a strictly better order key than row i.
Better(d, j, i, order, desc) ==
    IF desc THEN KeyLess(d, i, j, order) ELSE KeyLess(d, j, i, order)

\* C2: the row that survives in a partition has the minimum order key of the
\* partition when is_desc is False and the maximum when it is True: no row of
\* the partition with a strictly better key is discarded in favour of it.
C2_KeepsFirstOfPartition ==
    Deduped =>
        \E S \in SUBSET DOMAIN df.rows :
            /\ Survivors(df, df_dedup, S)
            /\ \A i \in S : \A j \in Partition(df, i, dedup_grain) :
                   ~Better(df, j, i, order_grain, is_desc)

\* A descending call on one partition whose keys differ in the second order
\* column only and include a NULL: the greatest key survives.
C2_Witness ==
    /\ Deduped
    /\ is_desc
    /\ df.columns = <<"k", "v">>
    /\ dedup_grain = <<>>
    /\ order_grain = <<"k", "v">>
    /\ df.rows = << <<1, NULL>>, <<1, 2>>, <<1, 1>> >>
    /\ df_dedup.rows = << <<1, 2>> >>

\* C3: remove_duplicates applied again to its own output, with the same
\* arguments, returns the same rows.
C3_Idempotent ==
    dedup_pc = "rerun" =>
        /\ df_again.status = "ok"
        /\ df_again.columns = df_dedup.columns
        /\ SameRows(df_again.rows, df_dedup.rows)

\* C10: remove_duplicates only selects rows: the output has the columns of
\* the input and each of its rows is a row of the input.
C10_OnlySelectsRows ==
    Deduped =>
        /\ df_dedup.columns = df.columns
        /\ \A r \in DOMAIN df_dedup.rows : df_dedup.rows[r] \in Range(df.rows)

----------------------------------------------------------------------------
(* Claims about col_rename_with_mapping *)

Renamed == rename_pc \in {"renamed", "rerun"}

IdentityMapping(m) == \A c \in DOMAIN m : m[c] = c

\* C6: col_rename_with_mapping returns the same number of columns in the same
\* positions with the same row data; the column at position i is named
\* mapping[old] when old is a key of the mapping and keeps its name otherwise.
\* With an identity mapping the output equals the input, and so does the
\* output of applying the operation again.
C6_RenamesMappedColumnsOnly ==
    (Renamed /\ IsDataFrame(rename_df) /\ col_mapping_file.kind = "json") =>
        LET old == rename_df.value
            m   == col_mapping_file.object
        IN  /\ rename_out.status = "ok"
            /\ Len(rename_out.columns) = Len(old.columns)
            /\ rename_out.rows = old.rows
            /\ \A i \in DOMAIN old.columns :
                   /\ old.columns[i] \in DOMAIN m => rename_out.columns[i] = m[old.columns[i]]
                   /\ old.columns[i] \notin DOMAIN m => rename_out.columns[i] = old.columns[i]
            /\ IdentityMapping(m) =>
                   /\ rename_out = old
                   /\ rename_pc = "rerun" => rename_again = old

\* A call that renames the first of two columns and leaves the second.
C6_Witness ==
    /\ Renamed
    /\ IsDataFrame(rename_df)
    /\ rename_df.value.columns = <<"a", "b">>
    /\ rename_df.value.rows = << <<1, 2>> >>
    /\ col_mapping_file = JsonFile([c \in {"a", "c"} |-> "d"])
    /\ rename_out = DataFrame(<<"d", "b">>, << <<1, 2>> >>)

\* C7: col_rename_with_mapping raises TypeError whenever its input is not a
\* DataFrame, and does so without opening the mapping file, whatever is at
\* col_mapping_path.
C7_TypeErrorBeforeFile ==
    (Renamed /\ ~IsDataFrame(rename_df)) =>
        /\ rename_out.status = "TypeError"
        /\ files_opened = 0

\* A call with None for df and no file at col_mapping_path.
C7_Witness ==
    /\ Renamed
    /\ rename_df.type = "NoneType"
    /\ col_mapping_file = MissingFile
    /\ rename_out.status = "TypeError"
    /\ files_opened = 0

----------------------------------------------------------------------------
(* Claims about annualize_salary *)

Annualized4 == salary_pc = "annualized"

\* The factor the claim gives for a frequency.
FactorOf(frequency) ==
    CASE frequency = "Hourly" -> 2080
      [] frequency = "Daily"  -> 260
      [] OTHER                -> 1

\* The three annualized columns are min, max and avg_salary times the factor
\* of the row's frequency; a NULL amount stays NULL.
AnnualizedByFactor ==
    LET f == FactorOf(salary_df.salary_frequency)
        scaled(v) == IF v = NULL THEN NULL ELSE v * f
    IN  /\ salary_out.annualized_salary_min_range = scaled(salary_df.salary_min_range)
        /\ salary_out.annualized_salary_max_range = scaled(salary_df.salary_max_range)
        /\ salary_out.annualized_salary_avg_range = scaled(salary_out.avg_salary)

BothSalaries == salary_df.salary_min_range # NULL /\ salary_df.salary_max_range # NULL

\* C4 as stated: avg_salary is exactly (salary_min_range + salary_max_range) / 2
\* and the annualized columns are min, max and avg times the factor.
C4_AvgIsExactMean ==
    Annualized4 =>
        /\ BothSalaries =>
               2 * salary_out.avg_salary = salary_df.salary_min_range + salary_df.salary_max_range
        /\ AnnualizedByFactor

\* C4, amended: avg_salary is (salary_min_range + salary_max_range) / 2
\* rounded to two decimals (NULL when either is NULL): a value of two decimals
\* within 0.005 of the mean, an exact half going up on decimal columns, while
\* on double columns the computed mean may lie just below the half and go
\* down.  The annualized columns are min, max and that avg_salary times the
\* factor: 2080 for Hourly, 260 for Daily, 1 for Annual and for anything else.
C4_AvgIsRoundedMean ==
    Annualized4 =>
        /\ BothSalaries =>
               LET sum == salary_df.salary_min_range + salary_df.salary_max_range
                   avg == salary_out.avg_salary
               IN  /\ avg # NULL
                   /\ avg % 10 = 0
                   /\ 2 * avg - sum >= -10
                   /\ 2 * avg - sum <= 10
                   /\ salary_type = "decimal" => 2 * avg - sum > -10
        /\ ~BothSalaries => salary_out.avg_salary = NULL
        /\ AnnualizedByFactor

\* The row Hourly, 10, 20 in double columns: 20800, 41600 and 31200.
C4_Witness ==
    /\ Annualized4
    /\ salary_type = "double"
    /\ salary_df = [salary_frequency |-> "Hourly",
                    salary_min_range |-> Amount(10, 0),
                    salary_max_range |-> Amount(20, 0)]
    /\ salary_out.avg_salary = Amount(15, 0)
    /\ salary_out.annualized_salary_min_range = Amount(20800, 0)
    /\ salary_out.annualized_salary_max_range = Amount(41600, 0)
    /\ salary_out.annualized_salary_avg_range = Amount(31200, 0)

\* The row Hourly, 10, 10.01: the mean 10.005 becomes 10.01 in decimal
\* columns and 10.0 in double columns, where the sum is 20.009999999999998.
C4_HalfGoesUp ==
    /\ Annualized4
    /\ salary_type = "decimal"
    /\ salary_df = [salary_frequency |-> "Hourly",
                    salary_min_range |-> Amount(10, 0),
                    salary_max_range |-> Amount(10, 1)]
    /\ salary_out.avg_salary = Amount(10, 1)
    /\ salary_out.annualized_salary_avg_range = Amount(20820, 80)

\* The same row in double columns.
C4_DoubleMeanBelowHalf ==
    /\ Annualized4
    /\ salary_type = "double"
    /\ salary_df = [salary_frequency |-> "Hourly",
                    salary_min_range |-> Amount(10, 0),
                    salary_max_range |-> Amount(10, 1)]
    /\ salary_out.avg_salary = Amount(10, 0)
    /\ salary_out.annualized_salary_avg_range = Amount(20800, 0)

----------------------------------------------------------------------------
(* Claims about convert_to_numeric *)

DecimalChars == {"0", "1", "2", "3", "4", "5", "6", "7", "8", "9"}

\* The digit characters of str in their order.
RECURSIVE DigitsOf(_)
DigitsOf(str) ==
    IF str = <<>> THEN <<>>
    ELSE IF Head(str) \in DecimalChars
         THEN <<Head(str)>> \o DigitsOf(Tail(str))
         ELSE DigitsOf(Tail(str))

\* The decimal numeral of n >= 0.
RECURSIVE Numeral(_)
Numeral(n) ==
    LET last == CASE n % 10 = 0 -> "0" [] n % 10 = 1 -> "1" [] n % 10 = 2 -> "2"
                  [] n % 10 = 3 -> "3" [] n % 10 = 4 -> "4" [] n % 10 = 5 -> "5"
                  [] n % 10 = 6 -> "6" [] n % 10 = 7 -> "7" [] n % 10 = 8 -> "8"
                  [] OTHER -> "9"
    IN  IF n < 10 THEN <<last>> ELSE Append(Numeral(n \div 10), last)

\* A numeral without its leading zeros (a single 0 stays).
RECURSIVE Significant(_)
Significant(ds) ==
    IF Len(ds) > 1 /\ Head(ds) = "0" THEN Significant(Tail(ds)) ELSE ds

DigitOrder(ch) == CHOOSE v \in 0..9 : Numeral(v) = <<ch>>

\* Numeral a denotes a greater number than numeral b (neither has leading zeros).
NumeralGreater(a, b) ==
    \/ Len(a) > Len(b)
    \/ /\ Len(a) = Len(b)
       /\ \E k \in DOMAIN a :
              /\ DigitOrder(a[k]) > DigitOrder(b[k])
              /\ \A m \in 1..(k - 1) : a[m] = b[m]

\* C8: convert_to_numeric with to_double=False yields the integer written by
\* the digit characters of the input in their order (every other character
\* removed), and NULL when the input has no digit or its digits exceed the
\* 32-bit integer range.
C8_IntOfDigits ==
    numeric_pc = "converted" =>
        LET ds == DigitsOf(numeric_df)
        IN  IF ds = <<>> \/ NumeralGreater(Significant(ds), Numeral(2147483647))
            THEN numeric_out = NULL
            ELSE /\ numeric_out # NULL
                 /\ Numeral(numeric_out) = Significant(ds)

\* "$1,234abc" converted to 1234.
C8_Witness ==
    /\ numeric_pc = "converted"
    /\ numeric_df = <<"$", "1", ",", "2", "3", "4", "a", "b", "c">>
    /\ numeric_out = 1234

\* Digits one beyond the int range converted to NULL.
C8_OverflowReached ==
    /\ numeric_pc = "converted"
    /\ numeric_df = <<"2", "1", "4", "7", "4", "8", "3", "6", "4", "8">>
    /\ numeric_out = NULL

----------------------------------------------------------------------------
(* Claims about export_to_csv *)

Target(c) == <<OutputPath, file_name[c]>>

\* Call c is the only caller so far: the other call has not begun.
Alone(c) == pc[Other(c)] = "start"

\* The file at the target of call c is the CSV, with its header row, of one of
\* the datasets.
TargetHolds(c, datasets) ==
    /\ Target(c) \in DOMAIN out_files
    /\ \E data \in datasets : out_files[Target(c)] = Csv(data)

\* Call c has failed, or it has returned and the file at its target is
\* missing or is not the CSV of its dataset (of the dataset of one of the
\* calls, when the two write to the same file name).
Harmed(c) ==
    \/ pc[c] = "failed"
    \/ /\ pc[c] = "done"
       /\ ~TargetHolds(c, IF file_name[c] = file_name[Other(c)]
                          THEN {export_df[o] : o \in Callers}
                          ELSE {export_df[c]})

C9_SafeExports == \A c \in Callers : ~Harmed(c)

\* C9: the harm is that of concurrent callers: a call fails, or returns with
\* its target file missing or holding another dataset, only when the two
\* calls overlapped: one began while the other was between the beginning of
\* its write and the end of its rmtree.  Calls made one after the other on
\* the same output path, with the same file name or different ones, all
\* succeed.
C9_HarmNeedsOverlap == \A c \in Callers : Harmed(c) => overlap

\* The interleaving of C9, with different file names: call 1 returned with
\* the dataset of call 2 in its target file, and call 2 failed with its
\* target file missing.
C9_Witness ==
    /\ file_name[1] # file_name[2]
    /\ prior.out_files = << >>
    /\ overlap
    /\ pc[1] = "done"
    /\ Target(1) \in DOMAIN out_files
    /\ out_files[Target(1)] = Csv(export_df[2])
    /\ pc[2] = "failed"
    /\ Target(2) \notin DOMAIN out_files

\* Two calls made one after the other, with different file names: both
\* returned, each with its dataset at its target.
C9_OneAfterTheOther ==
    /\ file_name[1] # file_name[2]
    /\ ~overlap
    /\ \A c \in Callers : pc[c] = "done" /\ TargetHolds(c, {export_df[c]})

\* Call 2 listed the directory after call 1's job had deleted its files and
\* set itself up: it found _temporary and no .csv, removed the directory and
\* returned without a target file, and the commit of call 1's job found no
\* _temporary.
C9_ReturnsWithoutFile ==
    /\ prior.out_files = << >>
    /\ files[2] = {<<"_temporary">>}
    /\ pc[2] = "done"
    /\ pc[1] = "failed"
    /\ raised[1] = "JobAborted"
    /\ out_files = << >>

\* The job of call 1 committed on the _temporary that the job of call 2 had
\* made anew: its write returned with no part file in the directory, and the
\* call returned without a target file.
C9_CommitsWithoutOutput ==
    /\ prior.out_files = << >>
    /\ pc[1] = "done"
    /\ files[1] = {<<"_SUCCESS">>, Checksum(<<"_SUCCESS">>)}
    /\ Target(1) \notin DOMAIN out_files

\* Call 2 listed the directory during the commit of call 1's job: a part file
\* together with _temporary, and no _SUCCESS.
C9_ListsDuringCommit ==
    /\ pc[2] = "listed"
    /\ files[2] = {PartFile(JobOf(1)), Checksum(PartFile(JobOf(1))), <<"_temporary">>}

\* Call 2 failed with FileNotFoundError before it moved a file, while call 1
\* is inside its write, between the delete of the directory and the setup of
\* its job.
C9_FailsDuringOverwrite ==
    /\ pc[1] = "cleared"
    /\ temp_output_dir(OutputPath) \notin DOMAIN dirs
    /\ pc[2] = "failed"
    /\ raised[2] = "FileNotFoundError"
    /\ files[2] = {}

\* The delete of call 1's write found entries of call 2's job in the
\* directory it had emptied: the write raised.
C9_UnableToClear ==
    /\ pc[1] = "failed"
    /\ raised[1] = "IOException"
    /\ temp_output_dir(OutputPath) \in DOMAIN dirs

\* Call 2 listed the directory after the first unlink of call 1's rmtree,
\* three of its job's four files, and moved its part file away; the rmtree of
\* call 1 then failed on that part file, in a directory that is still there.
C9_UnlinkFindsEntryGone ==
    /\ file_name[1] # file_name[2]
    /\ pc[1] = "failed"
    /\ raised[1] = "FileNotFoundError"
    /\ PartFile(JobOf(1)) \in files[1]
    /\ pc[2] = "renamed"
    /\ files[2] = {PartFile(JobOf(2)), Checksum(PartFile(JobOf(2))), <<"_SUCCESS">>}
    /\ temp_output_dir(OutputPath) \in DOMAIN dirs
    /\ DOMAIN dirs[temp_output_dir(OutputPath)] = {Checksum(PartFile(JobOf(2))), <<"_SUCCESS">>}
    /\ Target(1) \in DOMAIN out_files
    /\ out_files[Target(1)] = Csv(export_df[1])
    /\ Target(2) \in DOMAIN out_files
    /\ out_files[Target(2)] = Csv(export_df[2])

\* The rmdir of call 1's rmtree found the files of call 2's job in the
\* directory it had emptied: call 1 failed with its target file in place, and
\* call 2 ran to its end.
C9_RmdirNotEmpty ==
    /\ file_name[1] # file_name[2]
    /\ prior.out_files = << >>
    /\ pc[1] = "failed"
    /\ raised[1] = "ENOTEMPTY"
    /\ PartFile(JobOf(1)) \in files[1]
    /\ pc[2] = "done"
    /\ PartFile(JobOf(2)) \in files[2]
    /\ Target(1) \in DOMAIN out_files
    /\ out_files[Target(1)] = Csv(export_df[1])
    /\ Target(2) \in DOMAIN out_files
    /\ out_files[Target(2)] = Csv(export_df[2])

\* Call 2 listed the directory that the rmtree of call 1 had emptied and not
\* yet removed: it moved nothing and returned, and the rmdir of call 1 found
\* the directory gone.
C9_ListsEmptiedDirectory ==
    /\ pc[2] = "done"
    /\ files[2] = {}
    /\ pc[1] = "failed"
    /\ raised[1] = "FileNotFoundError"
    /\ PartFile(JobOf(2)) \in files[1]
    /\ Target(1) \in DOMAIN out_files
    /\ out_files[Target(1)] = Csv(export_df[2])

\* Between the lstat and the open of call 1's rmtree the write of call 2
\* removed the directory and made it anew: the rmtree raised OSError, with
\* the target file of call 1 in place.
C9_OpensAnotherDirectory ==
    /\ pc[1] = "failed"
    /\ raised[1] = "OSError"
    /\ TargetHolds(1, {export_df[1]})
    /\ temp_output_dir(OutputPath) \in DOMAIN dirs

\* The rmtree of call 1 is inside the task directory of call 2's job, which
\* it reached through _temporary and 0: it has unlinked the part file, and
\* the checksum file is still there.
C9_UnlinksTaskOutput ==
    /\ pc[1] = "removing"
    /\ Top(stack[1]).at = CommittedTaskPath(JobOf(2))
    /\ ~Top(stack[1]).dead
    /\ pc[2] = "tasked"
    /\ Listing(dirs, CommittedTaskPath(JobOf(2))) = {Checksum(PartFile(JobOf(2)))}

\* The rmtree of call 1 returned, its target file in place: it removed the
\* staging directory with the committed task output of call 2's job in it.
C9_RemovesTaskOutput ==
    /\ pc[1] = "done"
    /\ TargetHolds(1, {export_df[1]})
    /\ <<"_SUCCESS">> \in files[1]
    /\ pc[2] = "tasked"
    /\ temp_output_dir(OutputPath) \notin DOMAIN dirs

\* The rmtree of call 1 could not remove _temporary, which it had listed
\* when it was empty: the setup of call 2's job had made 0 in it, and no
\* task has written yet.
C9_TemporaryNotEmpty ==
    /\ pc[1] = "failed"
    /\ raised[1] = "ENOTEMPTY"
    /\ pc[2] = "setup"
    /\ Listing(dirs, << >>) = {Temporary}
    /\ Listing(dirs, <<Temporary>>) = {JobAttempt}
    /\ Listing(dirs, JobAttemptPath) = {}

\* The rmtree of call 1 could not remove _temporary/0, which it had listed
\* when it was empty: the task of call 2's job had written its output there.
C9_JobAttemptNotEmpty ==
    /\ pc[1] = "failed"
    /\ raised[1] = "ENOTEMPTY"
    /\ pc[2] = "tasked"
    /\ Listing(dirs, << >>) = {Temporary}
    /\ Listing(dirs, JobAttemptPath) = {Temporary, TaskDir(JobOf(2))}
    /\ Listing(dirs, CommittedTaskPath(JobOf(2))) =
           {PartFile(JobOf(2)), Checksum(PartFile(JobOf(2)))}

\* The rmtree of call 1 holds open a directory that the write of call 2 has
\* removed and made anew: the entry _SUCCESS it listed is gone, though the
\* directory now at the path has one of that name.
C9_HoldsRemovedDirectory ==
    /\ pc[1] = "removing"
    /\ Len(stack[1]) = 1
    /\ Top(stack[1]).dead
    /\ <<"_SUCCESS">> \in Top(stack[1]).todo
    /\ <<"_SUCCESS">> \in Listing(dirs, << >>)

\* The rmtree of call 1 took the stat of the attempt directory of call 2's
\* task, which the task's commit then renamed: the open found no directory
\* of that name.
C9_AttemptDirectoryRenamed ==
    /\ pc[1] = "entry"
    /\ stale[1] = "moved"
    /\ Top(stack[1]).entry = AttemptDir(JobOf(2))
    /\ DirExists(dirs, CommittedTaskPath(JobOf(2)))

\* The rmtree of call 1 holds open the attempt directory of call 2's task,
\* renamed by the task's commit: it unlinks the files in the task directory,
\* and will not find the directory under the name it listed.
C9_FollowsRenamedDirectory ==
    /\ pc[1] = "removing"
    /\ Top(stack[1]).name = AttemptDir(JobOf(2))
    /\ Top(stack[1]).at = CommittedTaskPath(JobOf(2))
    /\ Top(stack[1]).todo = {}
    /\ Listing(dirs, CommittedTaskPath(JobOf(2))) = {}

\* The job of call 1 committed the task output of call 2's job with its own:
\* both part files are in the staging directory that call 1 lists.
C9_MergesBothTasks ==
    /\ pc[1] = "listed"
    /\ {PartFile(JobOf(1)), PartFile(JobOf(2))} \subseteq files[1]

\* The delete of call 1's write could not remove _temporary, in which the
\* job of call 2 was writing: the write raised, with the staging directory
\* and _temporary in place.
C9_UnableToClearTemporary ==
    /\ pc[1] = "failed"
    /\ raised[1] = "IOException"
    /\ DirExists(dirs, <<Temporary>>)

====
